---- MODULE Spec2Model ----
(***************************************************************************)
(* State-machine model of the tracer frame loop (fluxehub/tracer).         *)
(*                                                                         *)
(* One CPU thread (main.rs) runs initialisation and then the winit event   *)
(* loop; it records into one command list, submits to one direct queue and *)
(* synchronises with one fence.  The GPU is a second process that consumes *)
(* the queue in FIFO order.  An Err that reaches main, or a panic, ends    *)
(* the process: the model stops in pc = "aborted".                         *)
(***************************************************************************)
EXTENDS Integers, Sequences, FiniteSets, TLC

\* ------------------------------------------------------------------ bounds
MaxFence == 8          \* events are dispatched only while the fence is below this
MaxRes == 13           \* size of the pool of resource addresses
MaxCount == 2          \* largest element count of the stand-alone upload buffer
MaxSlice == 3          \* longest slice handed to the copy primitives
MaxMaps == 2           \* get_buffer calls made on the stand-alone upload buffer
WordBits == 8          \* bits of the scaled machine word (u64, usize)

\* ------------------------------------------------------- program constants
NUM_INSTANCES == 3
NUM_SHADER_IDS == 3
D3D12_RAYTRACING_SHADER_TABLE_BYTE_ALIGNMENT == 64
D3D12_SHADER_IDENTIFIER_SIZE_IN_BYTES == 32
BufferCount == 2

QUAD_VTX == << -1, 0, -1, -1, 0, 1, 1, 0, 1, -1, 0, -1, 1, 0, -1, 1, 0, 1 >>
CUBE_VTX == << -1, -1, -1, 1, -1, -1, -1, 1, -1, 1, 1, -1, -1, -1, 1, 1, -1, 1, -1, 1, 1, 1, 1, 1 >>
CUBE_IDX == << 4, 6, 0, 2, 0, 6, 0, 1, 4, 5, 4, 1, 0, 2, 1, 3, 1, 2, 1, 3, 5, 7, 5, 3, 2, 6, 3, 7, 3, 6, 4, 5, 6, 7, 6, 5 >>

\* ------------------------------------------------------ environment inputs
HandleKinds == {"Win32", "Xlib", "Wayland"}      \* RawWindowHandle variants
Hwnds == {1, 2}                                  \* native handles (NonZeroIsize)
ClientRects == { <<0, 0>>, <<2, 3>> }            \* right-left, bottom-top
Ticks == {0, 1}                                  \* GetTickCount readings
ScratchSizes == {2, 3}                           \* ScratchDataSizeInBytes
UpdateScratchSizes == {1, 2}                     \* UpdateScratchDataSizeInBytes
ResultSizes == {4}                               \* ResultDataMaxSizeInBytes
SliceValues == {0, 1}                            \* element values of test slices

UploadNames == {"quad", "cube", "cube_index", "instances", "shader_ids"}
ResIds == 1..MaxRes

VARIABLES
    pc,             \* position of the CPU thread
    stack,          \* return labels of the calls in progress
    fenceCompleted, \* ID3D12Fence completed value
    gpuQueue,       \* work submitted to the command queue, not yet executed
    waitValue,      \* wait_for_gpu: local `fence`
    waitResult,     \* result of the last wait_for_gpu: "none", "ok", "err"
    lastWaitRet,    \* label the last successful wait_for_gpu returned to
    signals,        \* values passed to queue.Signal, in order
    execPending,    \* an ExecuteCommandLists not yet followed by a returned wait
    clState,        \* command list: "closed" or "recording"
    clCmds,         \* commands recorded since the last Reset
    clExecuted,     \* the list has been executed since its last Reset
    fullBuilds,     \* full acceleration-structure builds recorded so far
    live,           \* addresses of the resources that exist
    resDesc,        \* description of each resource
    upload,         \* the UploadResources, by name
    scene,          \* Scene fields
    mas,            \* locals of make_acceleration_structure
    surface,        \* Surface fields and swap chain
    ir,             \* locals of internal_resize
    frame,          \* locals of render / present
    window,         \* main: the raw window handle and the result of try_into
    hbuf,           \* stand-alone UploadResource driven with arbitrary inputs
    hpc,            \* the code using hbuf: "off", "running", "panicked"
    hscopes,        \* scopes that currently hold a view of hbuf
    hexit,          \* how the last scope of a view of hbuf was left
    hlast,          \* the last call made on hbuf: arguments, contents before, outcome
    halloc,         \* the create_upload_resource call that made hbuf
    hchecks         \* whether the build traps arithmetic overflow (overflow-checks)

ctxVars == <<fenceCompleted, gpuQueue, waitValue, waitResult, lastWaitRet, signals, execPending>>
listVars == <<clState, clCmds, clExecuted, fullBuilds>>
resVars == <<live, resDesc>>
sceneVars == <<scene, mas>>
surfVars == <<surface, ir, frame>>
harnessVars == <<hbuf, hpc, hscopes, hexit, hlast, halloc, hchecks>>
vars == <<pc, stack, ctxVars, listVars, resVars, upload, sceneVars, surfVars, window, harnessVars>>

\* ============================================================== resources
NoDesc == [kind |-> "none", size |-> 0, width |-> 0, height |-> 0, state |-> "none"]

BackBuffer(i) == i + 1                     \* swap-chain buffers own addresses 1, 2
PoolIds == (BufferCount + 1)..MaxRes

Min(S) == CHOOSE x \in S : \A y \in S : x <= y
Max2(a, b) == IF a >= b THEN a ELSE b

\* CreateCommittedResource: a fresh address, never one of a live resource.
FreshId(l) == Min(PoolIds \ l)

BufferDesc(kind, size, state) ==
    [kind |-> kind, size |-> size, width |-> size, height |-> 1, state |-> state]

TextureDesc(w, h, state) ==
    [kind |-> "texture", size |-> 0, width |-> w, height |-> h, state |-> state]

\* ======================================================= word arithmetic
\* u64 and usize (the same width on the program's target) wrap modulo the
\* word size when overflow checks are off and trap when they are on. The
\* word is scaled to WordBits bits, u32 to half of that.
WordMod == 2 ^ WordBits

U32Mod == 2 ^ (WordBits \div 2)

WrappingAdd(a, b) == (a + b) % WordMod

AddOverflows(a, b) == a + b >= WordMod

WrappingMul(a, b) == (a * b) % WordMod

MulOverflows(a, b) == a * b >= WordMod

\* `x as u32`
AsU32(x) == x % U32Mod

\* ========================================================= upload buffers
\* UploadResource<T> with the Map/Unmap traffic of its views.
NoUpload == [res |-> 0, size |-> 0, data |-> <<>>, maps |-> 0, unmaps |-> 0]

from_resource(id, size) ==
    [res |-> id, size |-> size, data |-> [i \in 1..size |-> 0], maps |-> 0, unmaps |-> 0]

LiveViews(u) == u.maps - u.unmaps

\* get_buffer, Map succeeded: a ResourceBuffer over `size` elements exists.
get_buffer(u) == [u EXCEPT !.maps = @ + 1]

\* Drop for ResourceBuffer: Unmap(0, None).
DropNoUnmap(u) == u
DropUnmapTwice(u) == [u EXCEPT !.unmaps = @ + 2]
drop(u) == [u EXCEPT !.unmaps = @ + 1]

\* ResourceBuffer::copy_from_slice: assert_eq!(slice.len(), data.len()).
CopyFromSliceOkShorter(u, slice) == Len(slice) <= Len(u.data)
copy_from_slice_ok(u, slice) == Len(slice) = Len(u.data)
copy_from_slice(u, slice) == [u EXCEPT !.data = slice]

\* ResourceBuffer::copy_from_slice_at:
\* assert!(offset + slice.len() <= data.len()); data[offset..offset + len] = slice
\* The sum is a usize sum. With the wrapped sum `end`, the assertion passes
\* when end <= data.len(); the range index data[offset..end] then panics
\* unless offset <= end and end <= data.len().
CopyAtAssertOnly(u, slice, offset) == WrappingAdd(offset, Len(slice)) <= Len(u.data)
copy_from_slice_at_ok(u, slice, offset) ==
    LET end == WrappingAdd(offset, Len(slice)) IN
      /\ end <= Len(u.data)
      /\ offset <= end
      /\ end <= Len(u.data)

copy_from_slice_at(u, slice, offset) ==
    LET end == WrappingAdd(offset, Len(slice)) IN
      [u EXCEPT !.data = [i \in 1..Len(u.data) |->
          IF offset < i /\ i <= end THEN slice[i - offset] ELSE u.data[i]]]

\* IndexMut: data[index] = value (0-based index), bounds-checked.
index_ok(u, index) == index < Len(u.data)
index_mut(u, index, value) == [u EXCEPT !.data[index + 1] = value]

\* =========================================================== command list
NoCmd ==
    [op |-> "none", res |-> 0, before |-> "none", after |-> "none",
     type |-> "none", flags |-> "none", num |-> 0, inputs |-> {},
     src |-> 0, dest |-> 0, scratch |-> 0, width |-> 0, height |-> 0, depth |-> 0,
     ranges |-> <<>>]

IsFullBuild(c) == c.op = "BuildRaytracingAccelerationStructure" /\ c.flags # "PERFORM_UPDATE"

\* Resources a recorded command refers to.
CmdRefs(c) == ({c.res, c.src, c.dest, c.scratch} \cup c.inputs) \ {0}

RECURSIVE ListRefs(_)
ListRefs(cmds) == IF cmds = <<>> THEN {} ELSE CmdRefs(Head(cmds)) \cup ListRefs(Tail(cmds))

\* Record commands on the command list.
Record(cmds) ==
    /\ clCmds' = clCmds \o cmds
    /\ fullBuilds' = fullBuilds \o SelectSeq(cmds, IsFullBuild)
    /\ UNCHANGED <<clState, clExecuted>>

\* command_allocator.Reset(); command_list.Reset(&command_allocator, None)
ResetListSkipped == UNCHANGED listVars
ResetList ==
    /\ clState' = "recording"
    /\ clCmds' = <<>>
    /\ clExecuted' = FALSE
    /\ UNCHANGED fullBuilds

CloseList ==
    /\ clState' = "closed"
    /\ UNCHANGED <<clCmds, clExecuted, fullBuilds>>

\* queue.ExecuteCommandLists(&[command_list])
ExecItem == [kind |-> "exec", value |-> 0, refs |-> ListRefs(clCmds), cmds |-> clCmds]
SignalItemStale(v) == [kind |-> "signal", value |-> v - 1, refs |-> {}, cmds |-> <<>>]
SignalItem(v) == [kind |-> "signal", value |-> v, refs |-> {}, cmds |-> <<>>]
PresentItem(bb) == [kind |-> "present", value |-> 0, refs |-> {bb}, cmds |-> <<>>]

ExecuteCommandLists ==
    /\ gpuQueue' = Append(gpuQueue, ExecItem)
    /\ execPending' = TRUE
    /\ clExecuted' = TRUE
    /\ UNCHANGED <<clState, clCmds, fullBuilds>>

\* What executing recorded commands does to the resource states: a
\* transition barrier leaves its resource in the barrier's after-state.
RECURSIVE ExecuteBarriers(_, _)
ExecuteBarriers(cmds, desc) ==
    IF cmds = <<>> THEN desc
    ELSE LET c == Head(cmds) IN
           ExecuteBarriers(Tail(cmds),
             IF c.op = "ResourceBarrier" /\ c.type = "TRANSITION"
               THEN [desc EXCEPT ![c.res] = [@ EXCEPT !.state = c.after]]
               ELSE desc)

InFlight == Cardinality({i \in 1..Len(gpuQueue) : gpuQueue[i].kind = "exec"})

\* ============================================================ control flow
Goto(l) == pc' = l /\ UNCHANGED stack
Call(l, ret) == pc' = l /\ stack' = <<ret>> \o stack
Return == pc' = Head(stack) /\ stack' = Tail(stack)
Abort == pc' = "aborted" /\ stack' = <<>>

\* ======================================================= DeviceInterface
\* wait_for_gpu, line 1: let fence = self.fence.GetCompletedValue() + 1
NextFenceSame(completed) == completed
NextFenceValue(completed) == completed + 1

\* SetEventOnCompletion(fence, None) returns once the fence reached `value`.
FenceAlwaysReached(value) == TRUE
FenceReached(value) == fenceCompleted >= value

WaitRead ==
    /\ pc = "wfg_read"
    /\ waitValue' = NextFenceValue(fenceCompleted)
    /\ waitResult' = "none"
    /\ Goto("wfg_signal")
    /\ UNCHANGED <<fenceCompleted, gpuQueue, lastWaitRet, signals, execPending>>
    /\ UNCHANGED <<listVars, resVars, upload, sceneVars, surfVars, window, harnessVars>>

\* queue.Signal(&fence, fence)? : enqueued behind everything submitted so far.
WaitSignal ==
    /\ pc = "wfg_signal"
    /\ \/ /\ gpuQueue' = Append(gpuQueue, SignalItem(waitValue))
          /\ signals' = Append(signals, waitValue)
          /\ Goto("wfg_block")
          /\ UNCHANGED waitResult
       \/ /\ waitResult' = "err"
          /\ Goto("wfg_ret")
          /\ UNCHANGED <<gpuQueue, signals>>
    /\ UNCHANGED <<fenceCompleted, waitValue, lastWaitRet, execPending>>
    /\ UNCHANGED <<listVars, resVars, upload, sceneVars, surfVars, window, harnessVars>>

\* fence.SetEventOnCompletion(fence, None): blocks the thread, or fails.
WaitBlock ==
    /\ pc = "wfg_block"
    /\ \/ /\ FenceReached(waitValue)
          /\ waitResult' = "ok"
       \/ waitResult' = "err"
    /\ Goto("wfg_ret")
    /\ UNCHANGED <<fenceCompleted, gpuQueue, waitValue, lastWaitRet, signals, execPending>>
    /\ UNCHANGED <<listVars, resVars, upload, sceneVars, surfVars, window, harnessVars>>

\* Every caller propagates Err with `?` or unwraps it.
WaitReturn ==
    /\ pc = "wfg_ret"
    /\ IF waitResult = "ok"
         THEN /\ Return
              /\ lastWaitRet' = Head(stack)
              /\ execPending' = FALSE
         ELSE /\ Abort
              /\ UNCHANGED <<lastWaitRet, execPending>>
    /\ UNCHANGED <<fenceCompleted, gpuQueue, waitValue, waitResult, signals>>
    /\ UNCHANGED <<listVars, resVars, upload, sceneVars, surfVars, window, harnessVars>>

\* The GPU executes the head of the queue.
GpuStep ==
    /\ gpuQueue # <<>>
    /\ gpuQueue' = Tail(gpuQueue)
    /\ fenceCompleted' =
         IF Head(gpuQueue).kind = "signal" THEN Head(gpuQueue).value ELSE fenceCompleted
    /\ resDesc' =
         IF Head(gpuQueue).kind = "exec"
           THEN ExecuteBarriers(Head(gpuQueue).cmds, resDesc)
           ELSE resDesc
    /\ UNCHANGED <<waitValue, waitResult, lastWaitRet, signals, execPending>>
    /\ UNCHANGED <<pc, stack, listVars, live, upload, sceneVars, surfVars, window, harnessVars>>

\* An API call that returns Err (or a failing unwrap) ends the process.
FalliblePcs ==
    {"from_handle", "ir_rect", "ir_resize", "ir_create",
     "quad_create", "cube_create", "cube_index_create", "quad_map", "cube_map", "cube_index_map",
     "mas_prebuild", "mas_reset", "mas_close",
     "inst_create", "inst_map", "mt_ret", "inst_view",
     "pipe_create", "pipe_map", "tick_reset", "p_record", "p_close", "p_present"}

ApiFailure ==
    /\ pc \in FalliblePcs
    /\ Abort
    /\ UNCHANGED <<ctxVars, listVars, resVars, upload, sceneVars, surfVars, window, harnessVars>>

\* ================================================================== main
\* the handles window.window_handle()?.as_raw() can yield
RawWindowHandles == { [kind |-> k, hwnd |-> h] : k \in HandleKinds, h \in Hwnds }

NoWindow == [raw |-> [kind |-> "none", hwnd |-> 0],
             result |-> [ok |-> FALSE, handle |-> 0, err |-> "none"]]

\* TryFrom<RawWindowHandle> for WindowHandle
TryFromAnyHandle(handle) ==
    [ok |-> TRUE, handle |-> handle.hwnd, err |-> "none"]
try_from(handle) ==
    IF handle.kind = "Win32"
      THEN [ok |-> TRUE, handle |-> handle.hwnd, err |-> "none"]
      ELSE [ok |-> FALSE, handle |-> 0, err |-> "UnsupportedPlatformError"]

\* window_handle try_into()?, then DeviceInterface::create()?
MainStart ==
    /\ pc = "main"
    /\ \E raw \in RawWindowHandles :
         /\ window' = [raw |-> raw, result |-> try_from(raw)]
         /\ IF try_from(raw).ok
              THEN /\ Goto("from_handle")
                   /\ clState' = "closed"
              ELSE /\ pc' = "exit_err"
                   /\ UNCHANGED <<stack, clState>>
    /\ UNCHANGED <<clCmds, clExecuted, fullBuilds>>
    /\ UNCHANGED <<ctxVars, resVars, upload, sceneVars, surfVars, harnessVars>>

\* =============================================================== Surface
\* from_handle: swap chain with two buffers and the one-entry UAV heap,
\* then internal_resize.
FromHandle ==
    /\ pc = "from_handle"
    /\ live' = live \cup {BackBuffer(0), BackBuffer(1)}
    /\ resDesc' = [resDesc EXCEPT ![BackBuffer(0)] = TextureDesc(0, 0, "PRESENT"),
                                  ![BackBuffer(1)] = TextureDesc(0, 0, "PRESENT")]
    /\ Call("ir_rect", "from_handle_ret")
    /\ UNCHANGED <<ctxVars, listVars, upload, sceneVars, surfVars, window, harnessVars>>

\* internal_resize: interface.wait_for_gpu()? before the swap chain is resized
InternalResizeNoWait == Goto("ir_resize")
InternalResizeWait == Call("wfg_read", "ir_resize")

\* internal_resize: GetClientRect, width and height
ClientExtentRaw(d) == AsU32(d)
ClientExtent(d) == AsU32(Max2(d, 1))

InternalResizeRect ==
    /\ pc = "ir_rect"
    /\ \E r \in ClientRects :
         ir' = [rect |-> r, width |-> ClientExtent(r[1]), height |-> ClientExtent(r[2]),
                result |-> 0]
    /\ InternalResizeWait
    /\ UNCHANGED <<surface, frame>>
    /\ UNCHANGED <<ctxVars, listVars, resVars, upload, sceneVars, window, harnessVars>>

\* swap_chain.ResizeBuffers(0, width, height, DXGI_FORMAT_UNKNOWN, 0)
InternalResizeBuffers ==
    /\ pc = "ir_resize"
    /\ resDesc' = [resDesc EXCEPT ![BackBuffer(0)] = TextureDesc(ir.width, ir.height, "PRESENT"),
                                  ![BackBuffer(1)] = TextureDesc(ir.width, ir.height, "PRESENT")]
    /\ surface' = [surface EXCEPT !.bbIndex = 0]
    /\ Goto("ir_create")
    /\ UNCHANGED <<live, ir, frame>>
    /\ UNCHANGED <<ctxVars, listVars, upload, sceneVars, window, harnessVars>>

\* CreateCommittedResource(rt_desc, UNORDERED_ACCESS) and
\* CreateUnorderedAccessView at the start of the heap.
InternalResizeCreate ==
    /\ pc = "ir_create"
    /\ LET id == FreshId(live) IN
         /\ live' = live \cup {id}
         /\ resDesc' = [resDesc EXCEPT ![id] = TextureDesc(ir.width, ir.height, "UNORDERED_ACCESS")]
         /\ surface' = [surface EXCEPT !.uav = id]
         /\ ir' = [ir EXCEPT !.result = id]
    /\ Return
    /\ UNCHANGED frame
    /\ UNCHANGED <<ctxVars, listVars, upload, sceneVars, window, harnessVars>>

FromHandleRet ==
    /\ pc = "from_handle_ret"
    /\ surface' = [surface EXCEPT !.target = ir.result]
    /\ Goto("quad_create")
    /\ UNCHANGED <<ir, frame>>
    /\ UNCHANGED <<ctxVars, listVars, resVars, upload, sceneVars, window, harnessVars>>

\* Surface::resize: self.target = internal_resize(..)?; the old target is
\* released by the assignment.
ReleaseNothing(old) == UNCHANGED <<live, resDesc>>
ReleaseTarget(old) ==
    /\ live' = live \ {old}
    /\ resDesc' = [resDesc EXCEPT ![old] = NoDesc]

ResizeRet ==
    /\ pc = "resize_ret"
    /\ surface' = [surface EXCEPT !.target = ir.result]
    /\ ReleaseTarget(surface.target)
    /\ Goto("loop")
    /\ UNCHANGED <<ir, frame>>
    /\ UNCHANGED <<ctxVars, listVars, upload, sceneVars, window, harnessVars>>

\* ================================================================= Scene
\* std::mem::size_of::<T>() of the element type of each upload buffer
SizeOf(name) ==
    CASE name \in {"quad", "cube"} -> 4
      [] name = "cube_index" -> 2
      [] name = "instances" -> 64
      [] OTHER -> 1

\* create_upload_resource: size * std::mem::size_of::<T>() as u64
byte_size(size, size_of) == WrappingMul(size, size_of)

\* create_upload_resource<T>(name, None, None, size)
CreateUpload(name, size) ==
    LET id == FreshId(live) IN
      /\ live' = live \cup {id}
      /\ resDesc' = [resDesc EXCEPT ![id] =
                       BufferDesc("upload", byte_size(size, SizeOf(name)), "COMMON")]
      /\ upload' = [upload EXCEPT ![name] = from_resource(id, size)]

\* The three create_upload_resource_from_slice calls of Scene::build.
UploadPlan ==
    { [name |-> "quad", data |-> QUAD_VTX, create |-> "quad_create",
       map |-> "quad_map", copy |-> "quad_copy", next |-> "cube_create"],
      [name |-> "cube", data |-> CUBE_VTX, create |-> "cube_create",
       map |-> "cube_map", copy |-> "cube_copy", next |-> "cube_index_create"],
      [name |-> "cube_index", data |-> CUBE_IDX, create |-> "cube_index_create",
       map |-> "cube_index_map", copy |-> "cube_index_copy", next |-> "mb_quad"] }

FromSliceCreate ==
    /\ \E p \in UploadPlan :
         /\ pc = p.create
         /\ CreateUpload(p.name, Len(p.data))
         /\ Goto(p.map)
    /\ UNCHANGED <<ctxVars, listVars, sceneVars, surfVars, window, harnessVars>>

\* let mut buffer = resource.get_buffer()?  (the Err case is ApiFailure)
FromSliceMap ==
    /\ \E p \in UploadPlan :
         /\ pc = p.map
         /\ upload' = [upload EXCEPT ![p.name] = get_buffer(@)]
         /\ Goto(p.copy)
    /\ UNCHANGED <<ctxVars, listVars, resVars, sceneVars, surfVars, window, harnessVars>>

\* buffer.copy_from_slice(data); the view is dropped at the end of the block
\* (or by the unwinding of the failed assertion).
FromSliceCopy ==
    /\ \E p \in UploadPlan :
         /\ pc = p.copy
         /\ IF copy_from_slice_ok(upload[p.name], p.data)
              THEN /\ upload' = [upload EXCEPT ![p.name] = drop(copy_from_slice(@, p.data))]
                   /\ Goto(p.next)
              ELSE /\ upload' = [upload EXCEPT ![p.name] = drop(@)]
                   /\ Abort
    /\ UNCHANGED <<ctxVars, listVars, resVars, sceneVars, surfVars, window, harnessVars>>

\* D3D12_BUILD_RAYTRACING_ACCELERATION_STRUCTURE_INPUTS
NoInputs == [type |-> "none", flags |-> "none", num |-> 0, inputs |-> {}]

\* make_blas: one triangle geometry over the vertex (and index) buffer
BlasInputs(mesh) ==
    [type |-> "BOTTOM_LEVEL", flags |-> "PREFER_FAST_TRACE", num |-> 1,
     inputs |-> IF mesh = "quad" THEN {upload["quad"].res}
                ELSE {upload["cube"].res, upload["cube_index"].res}]

\* make_tlas: NumDescs = instances.len(), InstanceDescs = its address
TlasInputs ==
    [type |-> "TOP_LEVEL", flags |-> "ALLOW_UPDATE", num |-> upload["instances"].size,
     inputs |-> {upload["instances"].res}]

BlasPlan ==
    { [mesh |-> "quad", call |-> "mb_quad", ret |-> "mb_quad_ret", next |-> "mb_cube"],
      [mesh |-> "cube", call |-> "mb_cube", ret |-> "mb_cube_ret", next |-> "inst_create"] }

MakeBlas ==
    /\ \E p \in BlasPlan :
         /\ pc = p.call
         /\ mas' = [mas EXCEPT !.inputs = BlasInputs(p.mesh)]
         /\ Call("mas_prebuild", p.ret)
    /\ UNCHANGED scene
    /\ UNCHANGED <<ctxVars, listVars, resVars, upload, surfVars, window, harnessVars>>

MakeBlasRet ==
    /\ \E p \in BlasPlan :
         /\ pc = p.ret
         /\ scene' = IF p.mesh = "quad" THEN [scene EXCEPT !.quad_blas = mas.as]
                     ELSE [scene EXCEPT !.cube_blas = mas.as]
         /\ Goto(p.next)
    /\ UNCHANGED mas
    /\ UNCHANGED <<ctxVars, listVars, resVars, upload, surfVars, window, harnessVars>>

\* make_acceleration_structure: prebuild info, scratch and result buffers
MasPrebuild ==
    /\ pc = "mas_prebuild"
    /\ \E s \in ScratchSizes, u \in UpdateScratchSizes, r \in ResultSizes :
         LET scratch == FreshId(live)
             as == FreshId(live \cup {scratch})
         IN /\ live' = live \cup {scratch, as}
            /\ resDesc' = [resDesc EXCEPT
                 ![scratch] = BufferDesc("gpu", s, "COMMON"),
                 ![as] = BufferDesc("gpu", r, "RAYTRACING_ACCELERATION_STRUCTURE")]
            /\ mas' = [mas EXCEPT
                 !.prebuild = [ScratchDataSizeInBytes |-> s,
                               UpdateScratchDataSizeInBytes |-> u,
                               ResultDataMaxSizeInBytes |-> r],
                 !.scratch = scratch, !.as = as]
    /\ Goto("mas_reset")
    /\ UNCHANGED scene
    /\ UNCHANGED <<ctxVars, listVars, upload, surfVars, window, harnessVars>>

MasReset ==
    /\ pc = "mas_reset"
    /\ ResetList
    /\ Goto("mas_record")
    /\ UNCHANGED <<ctxVars, resVars, upload, sceneVars, surfVars, window, harnessVars>>

\* build_desc of make_acceleration_structure
BuildDesc ==
    [NoCmd EXCEPT !.op = "BuildRaytracingAccelerationStructure",
                  !.type = mas.inputs.type, !.flags = mas.inputs.flags,
                  !.num = mas.inputs.num, !.inputs = mas.inputs.inputs,
                  !.dest = mas.as, !.scratch = mas.scratch]

MasRecord ==
    /\ pc = "mas_record"
    /\ Record(<<BuildDesc>>)
    /\ Goto("mas_close")
    /\ UNCHANGED <<ctxVars, resVars, upload, sceneVars, surfVars, window, harnessVars>>

MasClose ==
    /\ pc = "mas_close"
    /\ CloseList
    /\ Goto("mas_exec")
    /\ UNCHANGED <<ctxVars, resVars, upload, sceneVars, surfVars, window, harnessVars>>

\* make_acceleration_structure: interface.wait_for_gpu()? after the submission
MasNoWait == Goto("mas_ret")
MasWait == Call("wfg_read", "mas_ret")

MasExec ==
    /\ pc = "mas_exec"
    /\ ExecuteCommandLists
    /\ MasWait
    /\ UNCHANGED <<fenceCompleted, waitValue, waitResult, lastWaitRet, signals>>
    /\ UNCHANGED <<resVars, upload, sceneVars, surfVars, window, harnessVars>>

\* the size make_acceleration_structure returns next to the structure
FullScratchSize(info) == info.ScratchDataSizeInBytes
update_scratch_size(info) == info.UpdateScratchDataSizeInBytes

\* Ok((acceleration_structure, update_scratch_size)); `scratch` is dropped.
MasRet ==
    /\ pc = "mas_ret"
    /\ live' = live \ {mas.scratch}
    /\ resDesc' = [resDesc EXCEPT ![mas.scratch] = NoDesc]
    /\ mas' = [mas EXCEPT !.scratch = 0, !.size = update_scratch_size(mas.prebuild)]
    /\ Return
    /\ UNCHANGED scene
    /\ UNCHANGED <<ctxVars, listVars, upload, surfVars, window, harnessVars>>

\* update_transforms: the 3x4 transform of instance i at tick `time`
\* (cube and mirror are animated, the floor is not).
Transform(i, time) == IF i = 2 THEN <<2, 0>> ELSE <<i, time>>

\* the fields of D3D12_RAYTRACING_INSTANCE_DESC packed into _bitfield1:
\* InstanceID in bits 0..23, InstanceMask in bits 24..31
Bitfield1(id, mask) == (id % (2 ^ 24)) + (mask % (2 ^ 8)) * (2 ^ 24)

InstanceID(d) == d._bitfield1 % (2 ^ 24)

InstanceMask(d) == d._bitfield1 \div (2 ^ 24)

\* Default::default() of D3D12_RAYTRACING_INSTANCE_DESC
DefaultInstanceDesc ==
    [_bitfield1 |-> 0, AccelerationStructure |-> 0, Transform |-> <<>>]

SetTransformResetsDesc(u, i, time) ==
    [u EXCEPT !.data[i + 1] = [DefaultInstanceDesc EXCEPT !.Transform = Transform(i, time)]]

SetTransform(u, i, time) ==
    [u EXCEPT !.data[i + 1] = [@ EXCEPT !.Transform = Transform(i, time)]]

update_transforms(u, time) == SetTransform(SetTransform(SetTransform(u, 0, time), 1, time), 2, time)

\* the D3D12_RAYTRACING_INSTANCE_DESC Scene::build writes at index i
InstanceDescAllCube(i) ==
    [DefaultInstanceDesc EXCEPT
       !._bitfield1 = Bitfield1(i, 1),
       !.AccelerationStructure = scene.cube_blas]

InstanceDesc(i) ==
    [DefaultInstanceDesc EXCEPT
       !._bitfield1 = Bitfield1(i, 1),
       !.AccelerationStructure = IF i = 0 THEN scene.cube_blas ELSE scene.quad_blas]

InstancesCreate ==
    /\ pc = "inst_create"
    /\ CreateUpload("instances", NUM_INSTANCES)
    /\ Goto("inst_map")
    /\ UNCHANGED <<ctxVars, listVars, sceneVars, surfVars, window, harnessVars>>

InstancesMap ==
    /\ pc = "inst_map"
    /\ upload' = [upload EXCEPT !["instances"] = get_buffer(@)]
    /\ Goto("inst_fill")
    /\ UNCHANGED <<ctxVars, listVars, resVars, sceneVars, surfVars, window, harnessVars>>

\* the block of Scene::build that fills the instance array
InstancesFill ==
    /\ pc = "inst_fill"
    /\ \E time \in Ticks :
         LET filled == [upload["instances"] EXCEPT
                          !.data = [i \in 1..NUM_INSTANCES |-> InstanceDesc(i - 1)]]
         IN upload' = [upload EXCEPT !["instances"] = drop(update_transforms(filled, time))]
    /\ Goto("make_tlas")
    /\ UNCHANGED <<ctxVars, listVars, resVars, sceneVars, surfVars, window, harnessVars>>

MakeTlas ==
    /\ pc = "make_tlas"
    /\ mas' = [mas EXCEPT !.inputs = TlasInputs]
    /\ Call("mas_prebuild", "mt_ret")
    /\ UNCHANGED scene
    /\ UNCHANGED <<ctxVars, listVars, resVars, upload, surfVars, window, harnessVars>>

\* let (tlas, scratch_size) = make_tlas(..)?; create_gpu_resource("TLAS Scratch")
MakeTlasRet ==
    /\ pc = "mt_ret"
    /\ LET id == FreshId(live) IN
         /\ live' = live \cup {id}
         /\ resDesc' = [resDesc EXCEPT ![id] = BufferDesc("gpu", mas.size, "COMMON")]
         /\ scene' = [scene EXCEPT !.tlas = mas.as, !.tlas_scratch = id]
    /\ Goto("inst_view")
    /\ UNCHANGED mas
    /\ UNCHANGED <<ctxVars, listVars, upload, surfVars, window, harnessVars>>

\* InstancesBuilder { resource, buffer_builder: |r| r.get_buffer().unwrap() }:
\* the Scene keeps this view for as long as it lives.
InstancesView ==
    /\ pc = "inst_view"
    /\ upload' = [upload EXCEPT !["instances"] = get_buffer(@)]
    /\ scene' = [scene EXCEPT !.built = TRUE]
    /\ Goto("pipe_create")
    /\ UNCHANGED mas
    /\ UNCHANGED <<ctxVars, listVars, resVars, surfVars, window, harnessVars>>

\* ============================================================== Pipeline
\* props.GetShaderIdentifier(names[i]): 32 opaque bytes, distinct per shader
ShaderIdentifier(i) ==
    [k \in 1..D3D12_SHADER_IDENTIFIER_SIZE_IN_BYTES |-> (i * 37 + k) % 256]

PipelineCreate ==
    /\ pc = "pipe_create"
    /\ CreateUpload("shader_ids", NUM_SHADER_IDS * D3D12_RAYTRACING_SHADER_TABLE_BYTE_ALIGNMENT)
    /\ Goto("pipe_map")
    /\ UNCHANGED <<ctxVars, listVars, sceneVars, surfVars, window, harnessVars>>

PipelineMap ==
    /\ pc = "pipe_map"
    /\ upload' = [upload EXCEPT !["shader_ids"] = get_buffer(@)]
    /\ Goto("pipe_write")
    /\ UNCHANGED <<ctxVars, listVars, resVars, sceneVars, surfVars, window, harnessVars>>

\* offset of slot i of the shader table
SlotOffsetPacked(i) == i * D3D12_SHADER_IDENTIFIER_SIZE_IN_BYTES
SlotOffset(i) == i * D3D12_RAYTRACING_SHADER_TABLE_BYTE_ALIGNMENT

\* the loop over [RayGeneration, Miss, HitGroup] of Pipeline::create
RECURSIVE WriteShaderIds(_, _)
WriteShaderIds(u, i) ==
    IF i = NUM_SHADER_IDS THEN u
    ELSE WriteShaderIds(copy_from_slice_at(u, ShaderIdentifier(i), SlotOffset(i)), i + 1)

ShaderIdsFit(u) ==
    \A i \in 0..(NUM_SHADER_IDS - 1) : copy_from_slice_at_ok(u, ShaderIdentifier(i), SlotOffset(i))

PipelineWrite ==
    /\ pc = "pipe_write"
    /\ IF ShaderIdsFit(upload["shader_ids"])
         THEN /\ upload' = [upload EXCEPT !["shader_ids"] = drop(WriteShaderIds(@, 0))]
              /\ Goto("loop")
         ELSE /\ upload' = [upload EXCEPT !["shader_ids"] = drop(@)]
              /\ Abort
    /\ UNCHANGED <<ctxVars, listVars, resVars, sceneVars, surfVars, window, harnessVars>>

\* ============================================================ event loop
\* CloseRequested: interface.wait_for_gpu().unwrap() before elwt.exit()
CloseNoWait == Goto("close_ret")
CloseWait == Call("wfg_read", "close_ret")

EventCloseRequested ==
    /\ pc = "loop"
    /\ CloseWait
    /\ UNCHANGED <<ctxVars, listVars, resVars, upload, sceneVars, surfVars, window, harnessVars>>

\* elwt.exit()
CloseRet ==
    /\ pc = "close_ret"
    /\ Goto("exiting")
    /\ UNCHANGED <<ctxVars, listVars, resVars, upload, sceneVars, surfVars, window, harnessVars>>

\* run() returns: the closure and what it captured (interface, surface,
\* scene, pipeline) are dropped; the Scene's view is unmapped first.
Teardown ==
    /\ pc = "exiting"
    /\ upload' = [upload EXCEPT !["instances"] = drop(@)]
    /\ live' = {}
    /\ resDesc' = [i \in ResIds |-> NoDesc]
    /\ Goto("done")
    /\ UNCHANGED <<ctxVars, listVars, sceneVars, surfVars, window, harnessVars>>

EventResized ==
    /\ pc = "loop"
    /\ fenceCompleted < MaxFence
    /\ Call("ir_rect", "resize_ret")
    /\ UNCHANGED <<ctxVars, listVars, resVars, upload, sceneVars, surfVars, window, harnessVars>>

EventAboutToWait ==
    /\ pc = "loop"
    /\ fenceCompleted < MaxFence
    /\ Goto("tick_reset")
    /\ UNCHANGED <<ctxVars, listVars, resVars, upload, sceneVars, surfVars, window, harnessVars>>

TickReset ==
    /\ pc = "tick_reset"
    /\ ResetList
    /\ Goto("tick_update")
    /\ UNCHANGED <<ctxVars, resVars, upload, sceneVars, surfVars, window, harnessVars>>

\* Scene::update: the refit description
FullRebuildDesc ==
    [NoCmd EXCEPT !.op = "BuildRaytracingAccelerationStructure",
                  !.type = "TOP_LEVEL", !.flags = "ALLOW_UPDATE",
                  !.num = NUM_INSTANCES, !.inputs = {upload["instances"].res},
                  !.dest = scene.tlas, !.scratch = scene.tlas_scratch]
UpdateDesc ==
    [NoCmd EXCEPT !.op = "BuildRaytracingAccelerationStructure",
                  !.type = "TOP_LEVEL", !.flags = "PERFORM_UPDATE",
                  !.num = NUM_INSTANCES, !.inputs = {upload["instances"].res},
                  !.src = scene.tlas, !.dest = scene.tlas, !.scratch = scene.tlas_scratch]

UavBarrier(res) == [NoCmd EXCEPT !.op = "ResourceBarrier", !.type = "UAV", !.res = res]

\* Scene::update: the commands it records
UpdateWithoutBarrier == <<UpdateDesc>>
UpdateCommands == <<UpdateDesc, UavBarrier(scene.tlas)>>

\* Scene::update: transforms written through the Scene's view, then the
\* refit and the barrier recorded.
SceneUpdate ==
    /\ \E time \in Ticks :
         upload' = [upload EXCEPT !["instances"] = update_transforms(@, time)]
    /\ Record(UpdateCommands)

\* main.rs:74
TickUpdate ==
    /\ pc = "tick_update"
    /\ SceneUpdate
    /\ Goto("r_update")
    /\ UNCHANGED <<ctxVars, resVars, sceneVars, surfVars, window, harnessVars>>

\* main.rs:28, first statement of render
RenderUpdate ==
    /\ pc = "r_update"
    /\ SceneUpdate
    /\ Goto("r_bind")
    /\ UNCHANGED <<ctxVars, resVars, sceneVars, surfVars, window, harnessVars>>

SetCmd(op, num, res) == [NoCmd EXCEPT !.op = op, !.num = num, !.res = res]

\* pipeline.bind; scene.bind; surface.bind
BindCommandsSurfaceFirst ==
    << SetCmd("SetDescriptorHeaps", 0, 0),
       SetCmd("SetComputeRootDescriptorTable", 0, surface.uav),
       SetCmd("SetPipelineState1", 0, 0),
       SetCmd("SetComputeRootSignature", 0, 0),
       SetCmd("SetComputeRootShaderResourceView", 1, scene.tlas) >>
BindCommands ==
    << SetCmd("SetPipelineState1", 0, 0),
       SetCmd("SetComputeRootSignature", 0, 0),
       SetCmd("SetComputeRootShaderResourceView", 1, scene.tlas),
       SetCmd("SetDescriptorHeaps", 0, 0),
       SetCmd("SetComputeRootDescriptorTable", 0, surface.uav) >>

\* Surface::bind: Ok(self.target.GetDesc())
TargetDescStale == frame.desc
TargetDesc == resDesc[surface.target]

RenderBind ==
    /\ pc = "r_bind"
    /\ Record(BindCommands)
    /\ frame' = [frame EXCEPT !.desc = TargetDesc]
    /\ Goto("r_dispatch")
    /\ UNCHANGED <<surface, ir>>
    /\ UNCHANGED <<ctxVars, resVars, upload, sceneVars, window, harnessVars>>

\* Pipeline::create_rays_description: the ray-generation record, the miss
\* table and the hit-group table, as offsets from
\* shader_ids.get_gpu_virtual_address(); Width is `surface_desc.Width as u32`.
CreateRaysTransposed(surface_desc) ==
    [NoCmd EXCEPT !.op = "DispatchRays",
                  !.inputs = {upload["shader_ids"].res},
                  !.ranges =
                     << [start |-> 0,
                         size |-> D3D12_SHADER_IDENTIFIER_SIZE_IN_BYTES],
                        [start |-> D3D12_RAYTRACING_SHADER_TABLE_BYTE_ALIGNMENT,
                         size |-> D3D12_SHADER_IDENTIFIER_SIZE_IN_BYTES],
                        [start |-> 2 * D3D12_RAYTRACING_SHADER_TABLE_BYTE_ALIGNMENT,
                         size |-> D3D12_SHADER_IDENTIFIER_SIZE_IN_BYTES] >>,
                  !.width = surface_desc.height, !.height = AsU32(surface_desc.width),
                  !.depth = 1]
create_rays_description(surface_desc) ==
    [NoCmd EXCEPT !.op = "DispatchRays",
                  !.inputs = {upload["shader_ids"].res},
                  !.ranges =
                     << [start |-> 0,
                         size |-> D3D12_SHADER_IDENTIFIER_SIZE_IN_BYTES],
                        [start |-> D3D12_RAYTRACING_SHADER_TABLE_BYTE_ALIGNMENT,
                         size |-> D3D12_SHADER_IDENTIFIER_SIZE_IN_BYTES],
                        [start |-> 2 * D3D12_RAYTRACING_SHADER_TABLE_BYTE_ALIGNMENT,
                         size |-> D3D12_SHADER_IDENTIFIER_SIZE_IN_BYTES] >>,
                  !.width = AsU32(surface_desc.width), !.height = surface_desc.height,
                  !.depth = 1]

RenderDispatch ==
    /\ pc = "r_dispatch"
    /\ Record(<<create_rays_description(frame.desc)>>)
    /\ Goto("p_record")
    /\ UNCHANGED <<ctxVars, resVars, upload, sceneVars, surfVars, window, harnessVars>>

\* surface.rs: barrier(command_list, resource, before, after)
BarrierReversed(res, before, after) ==
    [NoCmd EXCEPT !.op = "ResourceBarrier", !.type = "TRANSITION",
                  !.res = res, !.before = after, !.after = before]
barrier(res, before, after) ==
    [NoCmd EXCEPT !.op = "ResourceBarrier", !.type = "TRANSITION",
                  !.res = res, !.before = before, !.after = after]

CopyResource(dst, src) == [NoCmd EXCEPT !.op = "CopyResource", !.dest = dst, !.src = src]

\* Surface::present: what it records
PresentCopyFirst(target, back_buffer) ==
    << CopyResource(back_buffer, target),
       barrier(target, "UNORDERED_ACCESS", "COPY_SOURCE"),
       barrier(back_buffer, "PRESENT", "COPY_DEST"),
       barrier(back_buffer, "COPY_DEST", "PRESENT"),
       barrier(target, "COPY_SOURCE", "UNORDERED_ACCESS") >>
PresentCommands(target, back_buffer) ==
    << barrier(target, "UNORDERED_ACCESS", "COPY_SOURCE"),
       barrier(back_buffer, "PRESENT", "COPY_DEST"),
       CopyResource(back_buffer, target),
       barrier(back_buffer, "COPY_DEST", "PRESENT"),
       barrier(target, "COPY_SOURCE", "UNORDERED_ACCESS") >>

\* swap_chain.GetBuffer(GetCurrentBackBufferIndex())?, SetName, the barriers
\* and the copy
PresentRecord ==
    /\ pc = "p_record"
    /\ frame' = [frame EXCEPT !.back_buffer = BackBuffer(surface.bbIndex)]
    /\ Record(PresentCommands(surface.target, BackBuffer(surface.bbIndex)))
    /\ Goto("p_close")
    /\ UNCHANGED <<surface, ir>>
    /\ UNCHANGED <<ctxVars, resVars, upload, sceneVars, window, harnessVars>>

PresentClose ==
    /\ pc = "p_close"
    /\ CloseList
    /\ Goto("p_exec")
    /\ UNCHANGED <<ctxVars, resVars, upload, sceneVars, surfVars, window, harnessVars>>

PresentExec ==
    /\ pc = "p_exec"
    /\ ExecuteCommandLists
    /\ Call("wfg_read", "p_present")
    /\ UNCHANGED <<fenceCompleted, waitValue, waitResult, lastWaitRet, signals>>
    /\ UNCHANGED <<resVars, upload, sceneVars, surfVars, window, harnessVars>>

\* swap_chain.Present(1, 0).ok(); back in render: interface.wait_for_gpu()
PresentSwap ==
    /\ pc = "p_present"
    /\ gpuQueue' = Append(gpuQueue, PresentItem(frame.back_buffer))
    /\ surface' = [surface EXCEPT !.bbIndex = (@ + 1) % BufferCount]
    /\ frame' = [frame EXCEPT !.back_buffer = 0]
    /\ Call("wfg_read", "loop")
    /\ UNCHANGED ir
    /\ UNCHANGED <<fenceCompleted, waitValue, waitResult, lastWaitRet, signals, execPending>>
    /\ UNCHANGED <<listVars, resVars, upload, sceneVars, window, harnessVars>>

\* ======================================================== specification
NoLast == [op |-> "none", slice |-> <<>>, offset |-> 0, before |-> <<>>, ok |-> TRUE]

NoAlloc == [size |-> 0, size_of |-> 0, bytes |-> 0]

NoPrebuild ==
    [ScratchDataSizeInBytes |-> 0, UpdateScratchDataSizeInBytes |-> 0,
     ResultDataMaxSizeInBytes |-> 0]

ProgramInit ==
    /\ pc = "main"
    /\ stack = <<>>
    /\ fenceCompleted = 0
    /\ gpuQueue = <<>>
    /\ waitValue = 0
    /\ waitResult = "none"
    /\ lastWaitRet = "none"
    /\ signals = <<>>
    /\ execPending = FALSE
    /\ clState = "none"
    /\ clCmds = <<>>
    /\ clExecuted = FALSE
    /\ fullBuilds = <<>>
    /\ live = {}
    /\ resDesc = [i \in ResIds |-> NoDesc]
    /\ upload = [n \in UploadNames |-> NoUpload]
    /\ scene = [quad_blas |-> 0, cube_blas |-> 0, tlas |-> 0, tlas_scratch |-> 0,
                built |-> FALSE]
    /\ mas = [inputs |-> NoInputs, prebuild |-> NoPrebuild, scratch |-> 0, as |-> 0,
              size |-> 0]
    /\ surface = [target |-> 0, bbIndex |-> 0, uav |-> 0]
    /\ ir = [rect |-> <<0, 0>>, width |-> 0, height |-> 0, result |-> 0]
    /\ frame = [desc |-> NoDesc, back_buffer |-> 0]
    /\ window = NoWindow

Init ==
    /\ ProgramInit
    /\ hbuf = NoUpload
    /\ hpc = "off"
    /\ hscopes = 0
    /\ hexit = "none"
    /\ hlast = NoLast
    /\ halloc = NoAlloc
    /\ hchecks = FALSE

Next ==
    \/ MainStart
    \/ FromHandle \/ InternalResizeRect \/ InternalResizeBuffers \/ InternalResizeCreate
    \/ FromHandleRet \/ ResizeRet
    \/ FromSliceCreate \/ FromSliceMap \/ FromSliceCopy
    \/ MakeBlas \/ MakeBlasRet
    \/ MasPrebuild \/ MasReset \/ MasRecord \/ MasClose \/ MasExec \/ MasRet
    \/ InstancesCreate \/ InstancesMap \/ InstancesFill
    \/ MakeTlas \/ MakeTlasRet \/ InstancesView
    \/ PipelineCreate \/ PipelineMap \/ PipelineWrite
    \/ EventCloseRequested \/ CloseRet \/ Teardown
    \/ EventResized \/ EventAboutToWait
    \/ TickReset \/ TickUpdate \/ RenderUpdate \/ RenderBind \/ RenderDispatch
    \/ PresentRecord \/ PresentClose \/ PresentExec \/ PresentSwap
    \/ WaitRead \/ WaitSignal \/ WaitBlock \/ WaitReturn
    \/ GpuStep
    \/ ApiFailure

Spec == Init /\ [][Next]_vars

\* ----------------------------------------------------------------------
\* The same program under scheduling assumptions: the CPU thread takes its
\* next step whenever it can take one in which no API call newly fails, and
\* the GPU eventually executes the head of its queue.
CpuStep ==
    \/ MainStart
    \/ FromHandle \/ InternalResizeRect \/ InternalResizeBuffers \/ InternalResizeCreate
    \/ FromHandleRet \/ ResizeRet
    \/ FromSliceCreate \/ FromSliceMap \/ FromSliceCopy
    \/ MakeBlas \/ MakeBlasRet
    \/ MasPrebuild \/ MasReset \/ MasRecord \/ MasClose \/ MasExec \/ MasRet
    \/ InstancesCreate \/ InstancesMap \/ InstancesFill
    \/ MakeTlas \/ MakeTlasRet \/ InstancesView
    \/ PipelineCreate \/ PipelineMap \/ PipelineWrite
    \/ EventCloseRequested \/ CloseRet \/ Teardown
    \/ EventResized \/ EventAboutToWait
    \/ TickReset \/ TickUpdate \/ RenderUpdate \/ RenderBind \/ RenderDispatch
    \/ PresentRecord \/ PresentClose \/ PresentExec \/ PresentSwap
    \/ WaitRead \/ WaitSignal \/ WaitBlock \/ WaitReturn

CpuProgress ==
    /\ CpuStep
    /\ waitResult' = "err" => waitResult = "err"

FairSpec == Init /\ [][Next]_vars /\ WF_vars(CpuProgress) /\ WF_vars(GpuStep)

\* ===================================================== upload-buffer spec
\* One UploadResource<T> made by create_upload_resource and used the way
\* resource.rs lets any caller use it: views are taken, written through and
\* dropped, with counts, slices, offsets and indices drawn from small sets
\* that include values near the top of the word.
Slices == UNION { [1..n -> SliceValues] : n \in 0..MaxSlice }
Offsets == (0..MaxSlice) \cup {WordMod - 2, WordMod - 1}
ElemSizes == { SizeOf(n) : n \in UploadNames }
OverflowCount == WordMod \div 64 + 1
Counts == (0..MaxCount) \cup {OverflowCount}

RECURSIVE DropAll(_, _)
DropAll(u, n) == IF n = 0 THEN u ELSE DropAll(drop(u), n - 1)

\* the last call made on the buffer and whether it returned normally
LastCall(op, slice, offset, ok) ==
    [op |-> op, slice |-> slice, offset |-> offset, before |-> hbuf.data, ok |-> ok]

\* A failed assertion or bounds check unwinds every scope, dropping its view.
HPanic ==
    /\ hbuf' = DropAll(hbuf, hscopes)
    /\ hscopes' = 0
    /\ hpc' = "panicked"
    /\ hexit' = "panic"

HUnchangedProgram ==
    UNCHANGED <<pc, stack, ctxVars, listVars, resVars, upload, sceneVars, surfVars, window>>

\* create_upload_resource::<T>(.., size): the byte size is a u64 product
HCreateUpload ==
    /\ hpc = "start"
    /\ \E size \in Counts, size_of \in ElemSizes :
         IF hchecks /\ MulOverflows(size, size_of)
           THEN /\ hpc' = "panicked"
                /\ hexit' = "panic"
                /\ hlast' = LastCall("create_upload_resource", <<>>, 0, FALSE)
                /\ UNCHANGED <<hbuf, halloc>>
           ELSE /\ hbuf' = from_resource(BufferCount + 1, size)
                /\ halloc' = [size |-> size, size_of |-> size_of,
                              bytes |-> byte_size(size, size_of)]
                /\ hpc' = "running"
                /\ hlast' = LastCall("create_upload_resource", <<>>, 0, TRUE)
                /\ UNCHANGED hexit
    /\ UNCHANGED <<hscopes, hchecks>>
    /\ HUnchangedProgram

\* create_upload_resource: CreateCommittedResource returned Err
HCreateUploadErr ==
    /\ hpc = "start"
    /\ hpc' = "failed"
    /\ hlast' = LastCall("create_upload_resource", <<>>, 0, FALSE)
    /\ UNCHANGED <<hbuf, hscopes, hexit, halloc, hchecks>>
    /\ HUnchangedProgram

\* get_buffer: Map succeeded
HGetBuffer ==
    /\ hpc = "running"
    /\ hbuf.maps < MaxMaps
    /\ hbuf' = get_buffer(hbuf)
    /\ hscopes' = hscopes + 1
    /\ hexit' = "none"
    /\ hlast' = LastCall("get_buffer", <<>>, 0, TRUE)
    /\ UNCHANGED <<hpc, halloc, hchecks>>
    /\ HUnchangedProgram

\* get_buffer: Map(..)? returned Err, no ResourceBuffer was made
HGetBufferErr ==
    /\ hpc = "running"
    /\ hexit' = "map_failed"
    /\ hlast' = LastCall("get_buffer", <<>>, 0, FALSE)
    /\ UNCHANGED <<hbuf, hpc, hscopes, halloc, hchecks>>
    /\ HUnchangedProgram

HCopyFromSlice ==
    /\ hpc = "running"
    /\ hscopes > 0
    /\ \E slice \in Slices :
         LET ok == copy_from_slice_ok(hbuf, slice) IN
           /\ hlast' = LastCall("copy_from_slice", slice, 0, ok)
           /\ IF ok
                THEN /\ hbuf' = copy_from_slice(hbuf, slice)
                     /\ hexit' = "none"
                     /\ UNCHANGED <<hpc, hscopes>>
                ELSE HPanic
    /\ UNCHANGED <<halloc, hchecks>>
    /\ HUnchangedProgram

\* with overflow checks on, the sum offset + slice.len() traps before the
\* assertion is evaluated
HCopyFromSliceAt ==
    /\ hpc = "running"
    /\ hscopes > 0
    /\ \E slice \in Slices, offset \in Offsets :
         LET ok == /\ ~(hchecks /\ AddOverflows(offset, Len(slice)))
                   /\ copy_from_slice_at_ok(hbuf, slice, offset)
         IN
           /\ hlast' = LastCall("copy_from_slice_at", slice, offset, ok)
           /\ IF ok
                THEN /\ hbuf' = copy_from_slice_at(hbuf, slice, offset)
                     /\ hexit' = "none"
                     /\ UNCHANGED <<hpc, hscopes>>
                ELSE HPanic
    /\ UNCHANGED <<halloc, hchecks>>
    /\ HUnchangedProgram

HIndexMut ==
    /\ hpc = "running"
    /\ hscopes > 0
    /\ \E index \in 0..MaxCount, value \in SliceValues :
         LET ok == index_ok(hbuf, index) IN
           /\ hlast' = LastCall("index_mut", <<value>>, index, ok)
           /\ IF ok
                THEN /\ hbuf' = index_mut(hbuf, index, value)
                     /\ hexit' = "none"
                     /\ UNCHANGED <<hpc, hscopes>>
                ELSE HPanic
    /\ UNCHANGED <<halloc, hchecks>>
    /\ HUnchangedProgram

\* the innermost scope holding a view ends normally
HScopeEnd ==
    /\ hpc = "running"
    /\ hscopes > 0
    /\ hbuf' = drop(hbuf)
    /\ hscopes' = hscopes - 1
    /\ hexit' = "normal"
    /\ hlast' = LastCall("drop", <<>>, 0, TRUE)
    /\ UNCHANGED <<hpc, halloc, hchecks>>
    /\ HUnchangedProgram

\* `return` or `?` inside the scopes: all of them are left at once
HEarlyReturn ==
    /\ hpc = "running"
    /\ hscopes > 0
    /\ hbuf' = DropAll(hbuf, hscopes)
    /\ hscopes' = 0
    /\ hexit' = "early_return"
    /\ hlast' = LastCall("drop", <<>>, 0, TRUE)
    /\ UNCHANGED <<hpc, halloc, hchecks>>
    /\ HUnchangedProgram

BufInit ==
    /\ ProgramInit
    /\ hbuf = NoUpload
    /\ hpc = "start"
    /\ hscopes = 0
    /\ hexit = "none"
    /\ hlast = NoLast
    /\ halloc = NoAlloc
    /\ hchecks \in BOOLEAN

BufNext ==
    \/ HCreateUpload \/ HCreateUploadErr
    \/ HGetBuffer \/ HGetBufferErr
    \/ HCopyFromSlice \/ HCopyFromSliceAt \/ HIndexMut
    \/ HScopeEnd \/ HEarlyReturn

BufSpec == BufInit /\ [][BufNext]_vars

\* ================================================================ claims
IsRefit(c) == c.op = "BuildRaytracingAccelerationStructure" /\ c.flags = "PERFORM_UPDATE"
IsUavBarrierOn(c, res) == c.op = "ResourceBarrier" /\ c.type = "UAV" /\ c.res = res
\* C1: at most one command-list submission is in flight, and whenever the
\* allocator is about to be Reset or a list is about to be executed, the
\* previous ExecuteCommandLists has been followed by a wait_for_gpu that
\* returned.
C1_OneSubmissionInFlight ==
    /\ InFlight <= 1
    /\ pc \in {"mas_reset", "tick_reset", "mas_exec", "p_exec"} => (~execPending /\ InFlight = 0)

C1_Witness ==
    /\ pc = "tick_reset"
    /\ lastWaitRet = "loop"
    /\ Len(fullBuilds) = 3

\* C2: when wait_for_gpu returns Ok, no command list submitted before it is
\* still queued and the fence has reached the value the call signaled.
C2_WaitIsBarrier ==
    (pc = "wfg_ret" /\ waitResult = "ok") =>
        (fenceCompleted >= waitValue /\ InFlight = 0 /\ gpuQueue = <<>>)

C2_Witness ==
    /\ pc = "wfg_ret"
    /\ waitResult = "ok"
    /\ Head(stack) = "p_present"
    /\ execPending

\* C3: wait_for_gpu signals completed + 1, a value above the completed value,
\* and the values signaled over the run are strictly increasing from 1.
C3_FenceValuesIncrease ==
    /\ pc = "wfg_signal" => (waitValue = fenceCompleted + 1 /\ waitValue > fenceCompleted)
    /\ pc = "wfg_block" => waitValue = signals[Len(signals)]
    /\ signals # <<>> => signals[1] = 1
    /\ \A i, j \in 1..Len(signals) : i < j => signals[i] < signals[j]

C3_Witness ==
    /\ pc = "wfg_block"
    /\ Len(signals) >= 6
    /\ fenceCompleted < waitValue

C5_UnmapMatchesMap ==
    /\ hbuf.unmaps <= hbuf.maps
    /\ hbuf.maps - hbuf.unmaps = hscopes
    /\ hexit \in {"panic", "early_return"} => hbuf.unmaps = hbuf.maps

C5_Witness ==
    /\ hexit = "panic"
    /\ hbuf.maps = 2
    /\ hbuf.unmaps = 2

\* C6: the swap chain is resized and the previous target released only
\* after the wait_for_gpu of this resize returned, with nothing in flight;
\* no queued command list refers to a resource that no longer exists.
C6_ResizeAfterIdle ==
    /\ pc \in {"ir_resize", "ir_create", "resize_ret", "from_handle_ret"} =>
         /\ lastWaitRet = "ir_resize"
         /\ waitResult = "ok"
         /\ fenceCompleted >= waitValue
         /\ gpuQueue = <<>>
         /\ ~execPending
    /\ \A i \in 1..Len(gpuQueue) : gpuQueue[i].refs \subseteq live

C6_Witness ==
    /\ pc = "resize_ret"
    /\ surface.target \in ListRefs(clCmds)
    /\ surface.target # ir.result

\* C7: when present has recorded, the command list ends with exactly:
\* target UA->CopySource, back buffer Present->CopyDest, copy target into
\* back buffer, back buffer CopyDest->Present, target CopySource->UA; these
\* are the only transitions and the only copy of the list.
C7_PresentSequence ==
    pc = "p_close" =>
      LET n == Len(clCmds)
          t == surface.target
          b == frame.back_buffer
          IsTransition(c, r, from, to) ==
              c.op = "ResourceBarrier" /\ c.type = "TRANSITION" /\ c.res = r
              /\ c.before = from /\ c.after = to
      IN /\ n >= 5
         /\ b = BackBuffer(surface.bbIndex)
         /\ IsTransition(clCmds[n - 4], t, "UNORDERED_ACCESS", "COPY_SOURCE")
         /\ IsTransition(clCmds[n - 3], b, "PRESENT", "COPY_DEST")
         /\ clCmds[n - 2].op = "CopyResource"
         /\ clCmds[n - 2].dest = b /\ clCmds[n - 2].src = t
         /\ IsTransition(clCmds[n - 1], b, "COPY_DEST", "PRESENT")
         /\ IsTransition(clCmds[n], t, "COPY_SOURCE", "UNORDERED_ACCESS")
         /\ \A i \in 1..(n - 5) :
              /\ clCmds[i].op # "CopyResource"
              /\ ~(clCmds[i].op = "ResourceBarrier" /\ clCmds[i].type = "TRANSITION")

C7_Witness ==
    /\ pc = "p_close"
    /\ frame.back_buffer = BackBuffer(1)

\* C8: every recorded refit has a UAV barrier on its destination after it,
\* and between a refit and any later DispatchRays of the list lies such a
\* barrier.
C8_BarrierBeforeDispatch ==
    \A i \in 1..Len(clCmds) :
       IsRefit(clCmds[i]) =>
          /\ \E k \in (i + 1)..Len(clCmds) : IsUavBarrierOn(clCmds[k], clCmds[i].dest)
          /\ \A j \in (i + 1)..Len(clCmds) :
               clCmds[j].op = "DispatchRays" =>
                  \E k \in (i + 1)..(j - 1) : IsUavBarrierOn(clCmds[k], clCmds[i].dest)

C8_Witness ==
    /\ pc = "p_record"
    /\ \E i, j \in 1..Len(clCmds) :
         i < j /\ IsRefit(clCmds[i]) /\ clCmds[j].op = "DispatchRays"

\* C9: every refit has the TLAS as source and destination and the TLAS
\* scratch as scratch; that scratch has the update scratch size the TLAS
\* build reported; and once the Scene is built its TLAS and scratch stay
\* the same resources until the Scene is dropped.
C9_RefitState ==
    /\ \A i \in 1..Len(clCmds) :
         IsRefit(clCmds[i]) =>
            /\ clCmds[i].src = scene.tlas
            /\ clCmds[i].dest = scene.tlas
            /\ clCmds[i].scratch = scene.tlas_scratch
    /\ (scene.built /\ pc # "done") =>
         /\ {scene.tlas, scene.tlas_scratch} \subseteq live
         /\ scene.tlas # scene.tlas_scratch
         /\ scene.tlas = fullBuilds[Len(fullBuilds)].dest
         /\ mas.inputs.type = "TOP_LEVEL"
         /\ resDesc[scene.tlas_scratch].size = mas.prebuild.UpdateScratchDataSizeInBytes

C9_RefitInPlace ==
    /\ []C9_RefitState
    /\ [][(scene.built /\ pc # "exiting") =>
             /\ scene' = scene
             /\ resDesc'[scene.tlas_scratch] = resDesc[scene.tlas_scratch]
             /\ resDesc'[scene.tlas] = resDesc[scene.tlas]]_vars

C9_Witness ==
    /\ pc = "p_close"
    /\ fenceCompleted >= 6
    /\ mas.prebuild.UpdateScratchDataSizeInBytes # mas.prebuild.ScratchDataSizeInBytes
    /\ \E i \in 1..Len(clCmds) : IsRefit(clCmds[i])

\* C10: the full builds of the run are, in order, the quad BLAS, the cube
\* BLAS and the TLAS, each once and all during Scene::build; afterwards the
\* only acceleration-structure command is the refit whose destination is
\* the TLAS, never a BLAS.
C10_BuildOnce ==
    /\ Len(fullBuilds) <= 3
    /\ \A i \in 1..Len(fullBuilds) :
         /\ fullBuilds[i].type = (IF i = 3 THEN "TOP_LEVEL" ELSE "BOTTOM_LEVEL")
         /\ fullBuilds[i].inputs =
              (CASE i = 1 -> {upload["quad"].res}
                 [] i = 2 -> {upload["cube"].res, upload["cube_index"].res}
                 [] OTHER -> {upload["instances"].res})
         /\ \A j \in 1..Len(fullBuilds) : i # j => fullBuilds[i].dest # fullBuilds[j].dest
    /\ scene.built =>
         /\ Len(fullBuilds) = 3
         /\ fullBuilds[1].dest = scene.quad_blas
         /\ fullBuilds[2].dest = scene.cube_blas
         /\ fullBuilds[3].dest = scene.tlas
    /\ \A i \in 1..Len(clCmds) :
         (clCmds[i].op = "BuildRaytracingAccelerationStructure" /\ ~IsFullBuild(clCmds[i])) =>
            /\ scene.built
            /\ clCmds[i].type = "TOP_LEVEL"
            /\ clCmds[i].dest = scene.tlas
            /\ clCmds[i].dest \notin {scene.quad_blas, scene.cube_blas}

C10_Witness ==
    /\ pc = "p_close"
    /\ fenceCompleted >= 6
    /\ Cardinality({i \in 1..Len(clCmds) : IsRefit(clCmds[i])}) = 2

\* C11: after Scene::build the instance array has exactly 3 entries and the
\* TLAS was built with an instance count of 3; entry i carries instance
\* index i; entry 0 holds the cube BLAS address and entries 1 and 2 hold the
\* quad BLAS address.
C11_InstanceArray ==
    scene.built =>
        /\ Len(upload["instances"].data) = 3
        /\ Len(fullBuilds) = 3
        /\ fullBuilds[3].type = "TOP_LEVEL"
        /\ fullBuilds[3].num = 3
        /\ fullBuilds[3].inputs = {upload["instances"].res}
        /\ scene.cube_blas # scene.quad_blas
        /\ \A i \in 0..2 :
             /\ InstanceID(upload["instances"].data[i + 1]) = i
             /\ upload["instances"].data[i + 1].AccelerationStructure =
                  (IF i = 0 THEN fullBuilds[2].dest ELSE fullBuilds[1].dest)
        /\ fullBuilds[2].inputs = {upload["cube"].res, upload["cube_index"].res}
        /\ fullBuilds[1].inputs = {upload["quad"].res}

C11_Witness ==
    /\ pc = "pipe_create"
    /\ scene.built
    /\ upload["instances"].data[2].AccelerationStructure = scene.quad_blas
    /\ upload["instances"].data[1].AccelerationStructure = scene.cube_blas

\* C12: once the Scene is built, Scene::update keeps the instance array's
\* length and every instance's index, mask and acceleration-structure
\* address, changing only the transforms; every refit it records carries
\* the instance count and the instance-buffer address of the initial TLAS
\* build.
C12_UpdateKeepsInstances ==
    /\ [](scene.built =>
            /\ Len(upload["instances"].data) = fullBuilds[3].num
            /\ \A k \in 1..Len(clCmds) :
                 IsRefit(clCmds[k]) =>
                    /\ clCmds[k].num = fullBuilds[3].num
                    /\ clCmds[k].inputs = fullBuilds[3].inputs)
    /\ [][scene.built =>
            /\ Len(upload'["instances"].data) = Len(upload["instances"].data)
            /\ upload'["instances"].res = upload["instances"].res
            /\ \A i \in 1..Len(upload["instances"].data) :
                 /\ upload'["instances"].data[i]._bitfield1 =
                      upload["instances"].data[i]._bitfield1
                 /\ InstanceMask(upload'["instances"].data[i]) = 1
                 /\ upload'["instances"].data[i].AccelerationStructure =
                      upload["instances"].data[i].AccelerationStructure]_vars

C12_Witness ==
    /\ pc = "r_bind"
    /\ fenceCompleted >= 6
    /\ Cardinality({k \in 1..Len(clCmds) : IsRefit(clCmds[k])}) = 2
    /\ upload["instances"].data[1].Transform = Transform(0, 1)
    /\ upload["instances"].data[2].Transform = Transform(1, 1)
    /\ upload["instances"].data[3].Transform = Transform(2, 0)

\* C13: a mapped view has as many elements as the buffer was created with;
\* copy_from_slice returns only when the slice has exactly that many
\* elements, and the view then equals the slice; for any other length the
\* assertion fails and no element has been modified.
C13_CopyFromSlice ==
    /\ hbuf.res # 0 => Len(hbuf.data) = halloc.size
    /\ hlast.op = "copy_from_slice" =>
         IF Len(hlast.slice) = halloc.size
           THEN /\ hlast.ok
                /\ hpc = "running"
                /\ hbuf.data = hlast.slice
           ELSE /\ ~hlast.ok
                /\ hpc = "panicked"
                /\ hbuf.data = hlast.before

C13_Witness ==
    /\ hlast.op = "copy_from_slice"
    /\ hlast.ok
    /\ Len(hlast.slice) = 2
    /\ hlast.before # hlast.slice
    /\ hbuf.data = hlast.slice

\* C14: copy_from_slice_at is rejected, with no element written, whenever
\* the true sum offset + slice.len() exceeds the capacity, also when the
\* machine-word sum wraps around; otherwise it writes exactly the elements
\* [offset, offset + len) and leaves the others as they were.
C14_CopyAtRejectsOverflow ==
    hlast.op = "copy_from_slice_at" =>
        IF hlast.offset + Len(hlast.slice) > Len(hlast.before)
          THEN /\ ~hlast.ok
               /\ hpc = "panicked"
               /\ hbuf.data = hlast.before
          ELSE /\ hlast.ok
               /\ hpc = "running"
               /\ Len(hbuf.data) = Len(hlast.before)
               /\ \A i \in 1..Len(hbuf.data) :
                    hbuf.data[i] =
                      (IF hlast.offset < i /\ i <= hlast.offset + Len(hlast.slice)
                         THEN hlast.slice[i - hlast.offset]
                         ELSE hlast.before[i])

C14_Witness ==
    /\ hlast.op = "copy_from_slice_at"
    /\ ~hchecks
    /\ hlast.offset + Len(hlast.slice) >= WordMod
    /\ (hlast.offset + Len(hlast.slice)) % WordMod <= Len(hlast.before)
    /\ Len(hlast.before) = 2
    /\ ~hlast.ok
    /\ hbuf.data = hlast.before

\* C15: for every element count passed to create_upload_resource the
\* allocation holds exactly count * sizeof(element) bytes, so the mapped
\* view of count elements does not extend past the allocation.
C15_ByteSizeIsCountTimesSize ==
    hbuf.res # 0 =>
        /\ halloc.bytes = halloc.size * halloc.size_of
        /\ Len(hbuf.data) * halloc.size_of <= halloc.bytes

\* C16: once Pipeline::create has written the three identifiers, the
\* identifier-sized range at byte offset i * stride of the shader table
\* holds exactly identifier i, for every i; the three written ranges do not
\* overlap and all lie within the table's capacity of 3 * stride bytes.
C16_ShaderTableRoundTrip ==
    (upload["shader_ids"].unmaps = 1 /\ pc # "aborted") =>
        /\ Len(upload["shader_ids"].data) = 3 * 64
        /\ \A i \in 0..2 :
             /\ SubSeq(upload["shader_ids"].data, i * 64 + 1, i * 64 + 32) = ShaderIdentifier(i)
             /\ i * 64 + 32 <= Len(upload["shader_ids"].data)
             /\ \A j \in 0..2 :
                  i < j => SlotOffset(i) + Len(ShaderIdentifier(i)) <= SlotOffset(j)
        /\ \A i, j \in 0..2 : i # j => ShaderIdentifier(i) # ShaderIdentifier(j)

C16_Witness ==
    /\ pc = "loop"
    /\ upload["shader_ids"].unmaps = 1
    /\ SubSeq(upload["shader_ids"].data, 129, 160) = ShaderIdentifier(2)

\* C17: the rays description made from a target description of width W and
\* height H has Width = W, Height = H and Depth = 1, and three address
\* ranges that start at base, base + stride and base + 2 * stride, each at
\* the slot where the corresponding shader identifier was written.
C17_RaysDescription ==
    \A k \in 1..Len(clCmds) :
        clCmds[k].op = "DispatchRays" =>
            /\ clCmds[k].width = frame.desc.width
            /\ clCmds[k].height = frame.desc.height
            /\ clCmds[k].depth = 1
            /\ clCmds[k].inputs = {upload["shader_ids"].res}
            /\ Len(clCmds[k].ranges) = 3
            /\ \A i \in 0..2 :
                 /\ clCmds[k].ranges[i + 1].start = i * 64
                 /\ clCmds[k].ranges[i + 1].start = SlotOffset(i)
                 /\ SubSeq(upload["shader_ids"].data,
                           clCmds[k].ranges[i + 1].start + 1,
                           clCmds[k].ranges[i + 1].start + clCmds[k].ranges[i + 1].size)
                      = ShaderIdentifier(i)

C17_Witness ==
    /\ pc = "p_record"
    /\ frame.desc.width = 2
    /\ frame.desc.height = 3
    /\ \E k \in 1..Len(clCmds) :
         /\ clCmds[k].op = "DispatchRays"
         /\ clCmds[k].width = 2
         /\ clCmds[k].height = 3

\* C18: while a frame's command list is being recorded or is in flight,
\* every dispatch in it has the width and height of the current render
\* target, and every copy of present goes from that target to a back
\* buffer of the same width and height; the dimensions of a target that an
\* earlier resize replaced are never used.
C18_DispatchMatchesTarget ==
    (clState = "recording" \/ execPending) =>
        \A k \in 1..Len(clCmds) :
            /\ clCmds[k].op = "DispatchRays" =>
                 /\ surface.target \in live
                 /\ clCmds[k].width = resDesc[surface.target].width
                 /\ clCmds[k].height = resDesc[surface.target].height
            /\ clCmds[k].op = "CopyResource" =>
                 /\ clCmds[k].src = surface.target
                 /\ clCmds[k].dest \in {BackBuffer(0), BackBuffer(1)}
                 /\ resDesc[clCmds[k].dest].width = resDesc[clCmds[k].src].width
                 /\ resDesc[clCmds[k].dest].height = resDesc[clCmds[k].src].height

C18_Witness ==
    /\ pc = "p_close"
    /\ fenceCompleted = 7
    /\ surface.target # 3
    /\ resDesc[surface.target].width = 2
    /\ resDesc[surface.target].height = 3
    /\ \E k \in 1..Len(clCmds) :
         /\ clCmds[k].op = "DispatchRays"
         /\ clCmds[k].width = 2
         /\ clCmds[k].height = 3

\* C19: the dimensions of the target a resize yields depend only on the
\* client-area dimensions it read, so resizing twice with the same
\* dimensions yields the same target dimensions; after each successful
\* resize exactly one render target is live, the previous one having been
\* released.
C19_ResizeOneTarget ==
    LET targets == { id \in live \ {BackBuffer(0), BackBuffer(1)} :
                       resDesc[id].kind = "texture" }
        extent(d) == IF d >= 1 THEN d ELSE 1
    IN
      /\ (surface.target # 0 /\ pc \notin {"resize_ret", "done"}) =>
           /\ targets = {surface.target}
           /\ (pc \notin {"ir_rect", "wfg_read", "wfg_signal", "wfg_block", "wfg_ret",
                          "ir_resize", "ir_create", "aborted"}) =>
                /\ resDesc[surface.target].width = extent(ir.rect[1])
                /\ resDesc[surface.target].height = extent(ir.rect[2])
      /\ pc = "resize_ret" =>
           /\ targets = {surface.target, ir.result}
           /\ surface.target # ir.result

C19_Witness ==
    /\ pc = "loop"
    /\ fenceCompleted = 6
    /\ lastWaitRet = "ir_resize"
    /\ \E k \in 1..Len(clCmds) : IsFullBuild(clCmds[k])
    /\ surface.target = 3
    /\ Cardinality({ id \in live : resDesc[id].kind = "texture" }) = 3

\* C20: for every client rectangle, also one of zero width or height, the
\* swap-chain buffers and the render target that a resize creates have
\* width max(right - left, 1) and height max(bottom - top, 1); neither
\* dimension is ever 0.
C20_ClientExtent ==
    LET extent(d) == IF d > 1 THEN d ELSE 1 IN
      /\ pc \in {"ir_create", "from_handle_ret", "resize_ret"} =>
           \A b \in {BackBuffer(0), BackBuffer(1)} :
              /\ resDesc[b].width = extent(ir.rect[1])
              /\ resDesc[b].height = extent(ir.rect[2])
      /\ pc \in {"from_handle_ret", "resize_ret"} =>
           /\ resDesc[ir.result].kind = "texture"
           /\ resDesc[ir.result].width = extent(ir.rect[1])
           /\ resDesc[ir.result].height = extent(ir.rect[2])
      /\ (surface.target # 0 /\ pc # "done") =>
           \A id \in {surface.target, BackBuffer(0), BackBuffer(1)} :
              resDesc[id].width >= 1 /\ resDesc[id].height >= 1

C20_Witness ==
    /\ pc = "resize_ret"
    /\ ir.rect = <<0, 0>>
    /\ resDesc[ir.result].width = 1
    /\ resDesc[ir.result].height = 1
    /\ resDesc[BackBuffer(0)].width = 1

\* C21: on the close event one wait_for_gpu is made, and it has returned
\* before the event loop is told to exit and before anything is torn down:
\* from the return of that wait until the teardown nothing is queued or in
\* flight, so no resource is freed while a submission refers to it.
C21_CloseWaitsOnce ==
    /\ [](pc \in {"close_ret", "exiting"} =>
            /\ lastWaitRet = "close_ret"
            /\ waitResult = "ok"
            /\ fenceCompleted >= waitValue
            /\ gpuQueue = <<>>
            /\ ~execPending)
    /\ [][/\ pc' = "close_ret" => (pc = "wfg_ret" /\ stack = <<"close_ret">>)
          /\ (pc' = "wfg_read" /\ stack' = <<"close_ret">>) => pc = "loop"
          /\ pc = "close_ret" => pc' = "exiting"
          /\ pc' = "exiting" => pc = "close_ret"
          /\ pc' = "done" =>
               /\ pc = "exiting"
               /\ \A i \in 1..Len(gpuQueue) : gpuQueue[i].refs \cap live = {}
          /\ (live' # live /\ live' = {}) => pc = "exiting"]_vars

C21_Witness ==
    /\ pc = "exiting"
    /\ lastWaitRet = "close_ret"
    /\ fenceCompleted = 8
    /\ surface.target # 3
    /\ live # {}

\* C22: within an idle tick the steps run in the order reset, TLAS refit,
\* pipeline and root signature, surface binding, dispatch, copy and
\* present, wait, each of them once per tick: the command list of a frame
\* holds one refit, placed before the bindings, one dispatch and one copy;
\* a resize records nothing.
C22_StepsOncePerTick ==
    LET at(P(_)) == { k \in 1..Len(clCmds) : P(clCmds[k]) }
        refit(c) == IsRefit(c)
        pso(c) == c.op = "SetPipelineState1"
        table(c) == c.op = "SetComputeRootDescriptorTable"
        dispatch(c) == c.op = "DispatchRays"
        copy(c) == c.op = "CopyResource"
        before(A, B) == \A a \in A, b \in B : a < b
    IN
      /\ Cardinality(at(refit)) <= 1
      /\ Cardinality(at(pso)) <= 1
      /\ Cardinality(at(table)) <= 1
      /\ Cardinality(at(dispatch)) <= 1
      /\ Cardinality(at(copy)) <= 1
      /\ before(at(refit), at(pso))
      /\ before(at(pso), at(table))
      /\ before(at(table), at(dispatch))
      /\ before(at(dispatch), at(copy))
      /\ pc \in {"r_bind", "r_dispatch", "p_record", "p_close", "p_exec", "p_present"} =>
           Cardinality(at(refit)) = 1
      /\ pc \in {"ir_rect", "ir_resize", "ir_create", "resize_ret"} => clState = "closed"

\* C23: converting a raw window handle yields the UnsupportedPlatformError
\* value for every variant other than Win32, without a panic and before
\* any GPU object exists, and Ok with the same native handle for Win32.
C23_WindowHandle ==
    /\ pc = "main" => window = NoWindow
    /\ pc # "main" =>
         IF window.raw.kind = "Win32"
           THEN /\ window.result.ok
                /\ window.result.handle = window.raw.hwnd
                /\ pc # "exit_err"
           ELSE /\ ~window.result.ok
                /\ window.result.err = "UnsupportedPlatformError"
                /\ pc = "exit_err"
                /\ live = {}
                /\ clState = "none"
                /\ signals = <<>>
                /\ fenceCompleted = 0

C23_Witness ==
    /\ pc = "exit_err"
    /\ window.raw = [kind |-> "Wayland", hwnd |-> 2]
    /\ window.result.err = "UnsupportedPlatformError"

\* C24: under FairSpec the CPU thread can take a step in every state that
\* is neither final nor inside the blocking call of wait_for_gpu; every
\* wait_for_gpu that blocks eventually returns; and every build, frame and
\* resize that was started eventually completes (the thread is back in the
\* event loop or the process has ended).
C24_WaitsReturn ==
    /\ [](pc \notin {"wfg_block", "done", "aborted", "exit_err"} => ENABLED CpuStep)
    /\ []((pc = "wfg_block" /\ fenceCompleted < waitValue) => ~ENABLED CpuProgress)
    /\ (pc = "wfg_block") ~> (pc # "wfg_block")
    /\ (pc \notin {"loop", "done", "aborted", "exit_err"})
          ~> (pc \in {"loop", "done", "aborted", "exit_err"})
    /\ (pc = "loop") ~> (pc # "loop")

C24_Witness ==
    /\ pc = "wfg_block"
    /\ fenceCompleted < waitValue
    /\ stack = <<"p_present">>
    /\ InFlight = 1

\* C25: commands are recorded only while the command list is recording;
\* Close is issued only on a recording list; ExecuteCommandLists only on a
\* closed list that was recorded since it was last executed; and the
\* allocator and the list are Reset only when the list is closed and no
\* submission is in flight.
C25_CommandListProtocol ==
    /\ [](/\ pc \in {"mas_record", "tick_update", "r_update", "r_bind", "r_dispatch",
                     "p_record", "mas_close", "p_close"} => clState = "recording"
          /\ pc \in {"mas_exec", "p_exec"} =>
               /\ clState = "closed"
               /\ ~clExecuted
               /\ clCmds # <<>>
          /\ pc \in {"mas_reset", "tick_reset"} =>
               /\ clState = "closed"
               /\ InFlight = 0
               /\ ~execPending)
    /\ [][/\ (clCmds' # clCmds /\ clCmds' # <<>>) =>
               (clState = "recording" /\ clState' = "recording")
          /\ (clState = "recording" /\ clState' = "closed") =>
               pc \in {"mas_close", "p_close"}
          /\ (clExecuted' /\ ~clExecuted) =>
               (clState = "closed" /\ clCmds # <<>> /\ gpuQueue' = Append(gpuQueue, ExecItem))
          /\ (Len(gpuQueue') > Len(gpuQueue) /\ gpuQueue'[Len(gpuQueue')].kind = "exec") =>
               (clState = "closed" /\ ~clExecuted /\ clExecuted')
          /\ (clState' = "recording" /\ clState # "recording") =>
               (clState = "closed" /\ clCmds' = <<>> /\ InFlight = 0 /\ ~execPending)]_vars

C25_Witness ==
    /\ pc = "p_exec"
    /\ clState = "closed"
    /\ ~clExecuted
    /\ fenceCompleted = 7
    /\ Len(clCmds) > 5

\* A command stream finds every resource in the state its commands need.
RECURSIVE StatesFollowed(_, _)
StatesFollowed(cmds, desc) ==
    IF cmds = <<>> THEN TRUE
    ELSE LET c == Head(cmds)
             rest == Tail(cmds)
         IN CASE c.op = "ResourceBarrier" /\ c.type = "TRANSITION" ->
                   /\ desc[c.res].state = c.before
                   /\ StatesFollowed(rest, [desc EXCEPT ![c.res] = [@ EXCEPT !.state = c.after]])
              [] c.op = "DispatchRays" ->
                   /\ desc[surface.target].state = "UNORDERED_ACCESS"
                   /\ StatesFollowed(rest, desc)
              [] c.op = "CopyResource" ->
                   /\ desc[c.src].state = "COPY_SOURCE"
                   /\ desc[c.dest].state = "COPY_DEST"
                   /\ StatesFollowed(rest, desc)
              [] OTHER -> StatesFollowed(rest, desc)

\* C26: every transition barrier of a frame names as its before-state the
\* state its resource is in at that point of the command stream; the
\* render target is in UNORDERED_ACCESS at every dispatch, also at the
\* first one after a resize; at the copy the target is in COPY_SOURCE and
\* the back buffer in COPY_DEST; the back buffer is in PRESENT when the
\* swap chain presents it.
C26_ResourceStates ==
    /\ (clState = "recording" /\ InFlight = 0) => StatesFollowed(clCmds, resDesc)
    /\ \A i \in 1..Len(gpuQueue) :
         /\ gpuQueue[i].kind = "exec" => StatesFollowed(gpuQueue[i].cmds, resDesc)
         /\ gpuQueue[i].kind = "present" =>
              \A b \in gpuQueue[i].refs : resDesc[b].state = "PRESENT"
    /\ pc = "p_present" => resDesc[frame.back_buffer].state = "PRESENT"
    /\ (pc \in {"loop", "tick_reset", "r_bind", "r_dispatch", "resize_ret"} /\ surface.target # 0) =>
         /\ resDesc[surface.target].state = "UNORDERED_ACCESS"
         /\ resDesc[BackBuffer(0)].state = "PRESENT"
         /\ resDesc[BackBuffer(1)].state = "PRESENT"

C26_Witness ==
    /\ pc = "p_close"
    /\ fenceCompleted = 5
    /\ surface.target # 3
    /\ \E k \in 1..Len(clCmds) : clCmds[k].op = "DispatchRays"
    /\ \E k \in 1..Len(clCmds) :
         /\ clCmds[k].op = "ResourceBarrier"
         /\ clCmds[k].res = surface.target
         /\ clCmds[k].before = "UNORDERED_ACCESS"

\* C27: make_acceleration_structure returns only after its build has
\* completed on the GPU, and the build's scratch buffer is released only
\* then; the instance array is written, and the next build recorded, only
\* while no earlier build is queued or executing.
C27_BuildsSynchronous ==
    /\ [](/\ pc = "mas_ret" =>
               /\ lastWaitRet = "mas_ret"
               /\ waitResult = "ok"
               /\ fenceCompleted >= waitValue
               /\ gpuQueue = <<>>
               /\ ~execPending
               /\ mas.scratch \in live
          /\ pc \in {"inst_create", "inst_map", "inst_fill", "mas_prebuild", "mas_reset",
                     "mas_record"} =>
               /\ InFlight = 0
               /\ ~execPending
          /\ \A i \in 1..Len(gpuQueue) :
               (gpuQueue[i].kind = "exec" /\ pc # "done") => gpuQueue[i].refs \subseteq live)
    /\ [][/\ (pc = "mas_ret" /\ pc' # "mas_ret") =>
               /\ live' = live \ {mas.scratch}
               /\ \A i \in 1..Len(gpuQueue) : mas.scratch \notin gpuQueue[i].refs
          /\ (pc \in {"inst_map", "inst_fill"} /\ pc' # pc) =>
               (InFlight = 0 /\ ~execPending /\ gpuQueue = <<>>)
          /\ (Len(fullBuilds') > Len(fullBuilds)) =>
               (InFlight = 0 /\ ~execPending)]_vars

C27_Witness ==
    /\ pc = "mas_ret"
    /\ Len(fullBuilds) = 3
    /\ lastWaitRet = "mas_ret"
    /\ gpuQueue = <<>>
    /\ mas.scratch \in live
    /\ upload["instances"].data[1].AccelerationStructure = scene.cube_blas

\* The bindings a DispatchRays at position k of a command stream finds:
\* pipeline state and compute root signature first, then the TLAS as root
\* parameter 1, the descriptor heap and the UAV table as root parameter 0,
\* all set in the same recording.
BindingsBefore(cmds, k) ==
    LET at(op) == { j \in 1..(k - 1) : cmds[j].op = op }
        pso == at("SetPipelineState1")
        sig == at("SetComputeRootSignature")
        srv == at("SetComputeRootShaderResourceView")
        heap == at("SetDescriptorHeaps")
        table == at("SetComputeRootDescriptorTable")
    IN
      /\ pso # {} /\ sig # {} /\ srv # {} /\ heap # {} /\ table # {}
      /\ \A a \in pso \cup sig, b \in srv \cup heap \cup table : a < b
      /\ \A a \in heap, b \in table : a < b
      /\ \A j \in srv : cmds[j].num = 1 /\ cmds[j].res = scene.tlas
      /\ \A j \in table : cmds[j].num = 0 /\ cmds[j].res = surface.target
      /\ scene.tlas \in live
      /\ surface.target \in live

\* C28: in every frame, before DispatchRays is recorded, the pipeline state
\* and the compute root signature are set first and afterwards the TLAS
\* shader-resource view at root parameter 1, the descriptor heap and the UAV
\* table at root parameter 0; no dispatch is recorded or submitted with a
\* binding missing or left from an earlier recording.
C28_BindingsBeforeDispatch ==
    /\ ~clExecuted =>
         \A k \in 1..Len(clCmds) :
           clCmds[k].op = "DispatchRays" => BindingsBefore(clCmds, k)
    /\ \A i \in 1..Len(gpuQueue) :
         gpuQueue[i].kind = "exec" =>
           \A k \in 1..Len(gpuQueue[i].cmds) :
             gpuQueue[i].cmds[k].op = "DispatchRays" =>
               BindingsBefore(gpuQueue[i].cmds, k)
    /\ pc = "r_dispatch" =>
         /\ clState = "recording"
         /\ ~clExecuted
         /\ BindingsBefore(clCmds, Len(clCmds) + 1)
    /\ pc \in {"tick_update", "r_update", "r_bind"} =>
         \A k \in 1..Len(clCmds) :
           clCmds[k].op \notin {"SetPipelineState1", "SetComputeRootSignature",
                                "SetComputeRootShaderResourceView",
                                "SetDescriptorHeaps", "SetComputeRootDescriptorTable",
                                "DispatchRays"}

C28_Witness ==
    /\ pc = "p_record"
    /\ fenceCompleted = 7
    /\ surface.target # 3
    /\ clCmds[Len(clCmds)].op = "DispatchRays"
    /\ BindingsBefore(clCmds, Len(clCmds))

\* Submitted command lists, queued or executing, that read the instance buffer.
InstanceReaders ==
    { i \in 1..Len(gpuQueue) :
        gpuQueue[i].kind = "exec" /\ upload["instances"].res \in gpuQueue[i].refs }

\* C29: the CPU writes instance transforms only while no submitted command
\* list that reads the instance buffer is queued or executing; every write
\* of a frame happens after the previous frame's wait has returned and
\* before the frame's ExecuteCommandLists.
C29_NoInstanceBufferRace ==
    /\ [](/\ pc \in {"inst_map", "inst_fill", "tick_update", "r_update"} =>
               /\ InstanceReaders = {}
               /\ InFlight = 0
               /\ ~execPending
          /\ pc \in {"tick_update", "r_update"} =>
               /\ clState = "recording"
               /\ ~clExecuted
               /\ waitResult = "ok"
               /\ fenceCompleted >= waitValue
               /\ lastWaitRet \in {"mas_ret", "ir_resize", "loop"}
               /\ fenceCompleted > 4 => lastWaitRet \in {"ir_resize", "loop"})
    /\ [][(scene.built /\ scene'.built /\ pc # "done" /\ pc' # "done"
             /\ upload'["instances"].data # upload["instances"].data) =>
               /\ pc \in {"tick_update", "r_update"}
               /\ InstanceReaders = {}
               /\ ~execPending
               /\ ~clExecuted
               /\ clExecuted' = clExecuted]_vars

C29_Witness ==
    /\ pc = "r_bind"
    /\ fenceCompleted = 6
    /\ upload["instances"].data[1].Transform = Transform(0, 1)
    /\ Cardinality({k \in 1..Len(clCmds) : IsRefit(clCmds[k])}) = 2
    /\ InstanceReaders = {}

====
